---------------------------- MODULE Spec2Model ----------------------------
(***************************************************************************)
(* Model of the geofence admission engine of ave-backend (app/main.py):    *)
(* the request handlers create_geofence, get_geofences,                    *)
(* manual_deactivate_geofence and record_attendance running concurrently   *)
(* against one transactional store (tables Geofence and AttendanceRecord). *)
(*                                                                         *)
(* Every handler is a sequence of steps; a step is one statement against   *)
(* the store (a query or a commit) together with the Python code around    *)
(* it.  Steps of different requests interleave freely and the wall clock   *)
(* may advance between any two steps.  Time is counted in hours since      *)
(* midnight UTC of day 0.  Strings that the code concatenates or           *)
(* lower-cases are sequences of one-character strings.                     *)
(***************************************************************************)
EXTENDS Integers, Sequences, FiniteSets, TLC

(***************************************************************************)
(* Bounds of the model.                                                    *)
(***************************************************************************)
\* The wall clock runs from StartClock up to MaxClock.
MaxClock == 24

(***************************************************************************)
(* Program constants.                                                      *)
(***************************************************************************)
\* ZoneInfo("Africa/Lagos") is UTC+1 the whole year.
LagosOffset == 1
\* func.date / datetime.date(): length of a calendar day, in hours.
HoursPerDay == 24

\* The model starts two hours before midnight UTC of day 0.
StartClock == HoursPerDay - 2
\* Requests that can be in flight at the same time.
Workers == {1, 2}

(***************************************************************************)
(* Request inputs.                                                         *)
(***************************************************************************)
AdminA == <<"a", "d", "m", "1">>
AdminB == <<"a", "d", "m", "2">>
Admins == {AdminA, AdminB}
Students == {<<"u">>, <<"u", "a">>}
\* An authenticated student whose row is missing from the User table.
GhostStudent == <<"g">>
\* The User table; the handlers only read it.
Users == Admins \cup Students
\* (start, end) pairs as the administrator submits them, in Lagos civil time,
\* placed around midnight UTC.  In UTC WindowA is [22, 23] and WindowB is
\* [23, 24], both starting on day 0, and WindowC is [24, 25], starting on
\* day 1.  In Lagos time WindowA starts on day 0, WindowB and WindowC on day 1.
WindowA == <<HoursPerDay - 1, HoursPerDay>>
WindowB == <<HoursPerDay, HoursPerDay + 1>>
WindowC == <<HoursPerDay + 1, HoursPerDay + 2>>
\* A window that ends before it starts.
WindowBad == <<HoursPerDay, HoursPerDay - 1>>
\* Centre and radius of every fence that is created.
Geometry == [latitude |-> 0, longitude |-> 0, radius |-> 1]
\* Coordinates a student submits: the centre and a point outside the radius.
PointIn == <<0, 0>>
PointOut == <<0, 2>>
Points == {PointIn, PointOut}
\* The date argument of manual_deactivate_geofence is a datetime: midnight of
\* day 0, an hour of day 0 that is not midnight, midnight of day 1.
Midnight0 == 0 * HoursPerDay
Midnight1 == 1 * HoursPerDay

(***************************************************************************)
(* Strings.                                                                *)
(***************************************************************************)
\* str.lower() on one character.
LowerChar(c) ==
    CASE c = "A" -> "a"
      [] c = "B" -> "b"
      [] OTHER -> c

\* str.lower()
Lower(s) == [i \in DOMAIN s |-> LowerChar(s[i])]

\* generate_alphanumeric_code(): a fixed-length code over an alphabet of
\* letters and digits, chosen at random.
CodeLen == 1
CodeAlphabet == {"A", "b"}
GeneratedCodes == [1..CodeLen -> CodeAlphabet]
\* Fence codes a student may submit: the stored (lower-cased) codes and the
\* codes as generated.
RequestCodes == GeneratedCodes \cup {Lower(c) : c \in GeneratedCodes}

(***************************************************************************)
(* Time.                                                                   *)
(***************************************************************************)
\* t.replace(tzinfo=ZoneInfo("Africa/Lagos")).astimezone(ZoneInfo("UTC"))
ToUTC(t) == t - LagosOffset

\* func.date(column) and datetime.date(): the calendar day of an instant.
DateOf(t) == t \div HoursPerDay

\* A DATE compared with a datetime is taken as that day's midnight.
DateAsDatetime(d) == d * HoursPerDay

VARIABLES
    now,                \* the wall clock (UTC hours)
    geofences,          \* table Geofence: sequence of rows, id = index
    attendance_records, \* table AttendanceRecord: sequence of rows
    req                 \* per worker: the request it is handling

vars == <<now, geofences, attendance_records, req>>

NoArgs == [none |-> TRUE]
Idle == [op |-> "none", pc |-> "idle", args |-> NoArgs, loc |-> NoArgs, resp |-> ""]

\* A request that has run to its response (a return or an HTTPException):
\* the locals of the handler are gone.
Respond(r, response) == [r EXCEPT !.pc = "done", !.loc = NoArgs, !.resp = response]

Init ==
    /\ now = StartClock
    /\ geofences = <<>>
    /\ attendance_records = <<>>
    /\ req = [w \in Workers |-> Idle]

(***************************************************************************)
(* The store.  Its schema (app/models) is not part of main.py; it is       *)
(* modelled after the data model of the specification: fence_code is       *)
(* unique, (name, date of start_time) is unique, and the admission key     *)
(* matric_fence_code is unique.  A commit that would break a constraint    *)
(* raises IntegrityError and stores nothing.                               *)
(***************************************************************************)
GeofenceViolatesUnique(row) ==
    \E i \in DOMAIN geofences :
        \/ geofences[i].fence_code = row.fence_code
        \/ /\ geofences[i].name = row.name
           /\ DateOf(geofences[i].start_time) = DateOf(row.start_time)

AttendanceViolatesUnique(row) ==
    \E i \in DOMAIN attendance_records :
        attendance_records[i].matric_fence_code = row.matric_fence_code

\* Query(...).first(): the row with the lowest id, 0 when there is none.
First(ids) == IF ids = {} THEN 0 ELSE CHOOSE i \in ids : \A j \in ids : i <= j

(***************************************************************************)
(* create_geofence                                                         *)
(***************************************************************************)
\* The same query with the date taken from the submitted start time before
\* its conversion to UTC.
SameNameSameDate_LocalDate(name, start_time_utc) ==
    First({i \in DOMAIN geofences :
              /\ geofences[i].name = name
              /\ DateOf(geofences[i].start_time) = DateOf(start_time_utc + LagosOffset)})

\* The fence with the same name on the same (UTC) date, if any.
SameNameSameDate(name, start_time_utc) ==
    First({i \in DOMAIN geofences :
              /\ geofences[i].name = name
              /\ DateOf(geofences[i].start_time) = DateOf(start_time_utc)})

\* The status given to a new fence when the clock reads t.
InitialStatus(start_time_utc, end_time_utc, t) ==
    IF start_time_utc <= t /\ t <= end_time_utc THEN "active" ELSE "scheduled"

\* The response of the validation part, "" when the request passes it.
CreateRejection(name, start_time_utc, end_time_utc, t) ==
    IF SameNameSameDate(name, start_time_utc) # 0 THEN "DuplicateFenceWindow"
    ELSE IF start_time_utc >= end_time_utc THEN "InvalidInput"
    ELSE IF end_time_utc < t THEN "FenceExpiredAtCreation"
    ELSE ""

\* Time-zone conversion and the three rejections; the expiry check is the
\* first reading of the clock.  inputs: the (name, window, admin) triples
\* that may be submitted.
CG_Validate(w, inputs) ==
    /\ req[w].pc = "idle"
    /\ \E in \in inputs :
         LET start_time_utc == ToUTC(in[2][1])
             end_time_utc == ToUTC(in[2][2])
             r == [op |-> "create_geofence", pc |-> "cg_status",
                   args |-> [name |-> in[1], start_time |-> in[2][1],
                             end_time |-> in[2][2], user_matric |-> in[3]],
                   loc |-> [start_time_utc |-> start_time_utc,
                            end_time_utc |-> end_time_utc],
                   resp |-> ""]
             rejection == CreateRejection(in[1], start_time_utc, end_time_utc, now)
         IN req' = [req EXCEPT ![w] =
                       IF rejection # "" THEN Respond(r, rejection) ELSE r]
    /\ UNCHANGED <<now, geofences, attendance_records>>

\* The code is generated and lower-cased; the status is computed from a
\* second reading of the clock.
CG_Status(w) ==
    /\ req[w].pc = "cg_status"
    /\ \E initial_code \in GeneratedCodes :
         req' = [req EXCEPT
                   ![w].pc = "cg_commit",
                   ![w].loc = [start_time_utc |-> req[w].loc.start_time_utc,
                               end_time_utc |-> req[w].loc.end_time_utc,
                               code |-> Lower(initial_code),
                               status |-> InitialStatus(req[w].loc.start_time_utc,
                                                        req[w].loc.end_time_utc, now)]]
    /\ UNCHANGED <<now, geofences, attendance_records>>

\* time_created is a third reading of the clock; the row is added and
\* committed.  Any exception becomes a 500.
CG_Commit(w) ==
    /\ req[w].pc = "cg_commit"
    /\ LET new_geofence == [fence_code |-> req[w].loc.code,
                            name |-> req[w].args.name,
                            creator_matric |-> req[w].args.user_matric,
                            latitude |-> Geometry.latitude,
                            longitude |-> Geometry.longitude,
                            radius |-> Geometry.radius,
                            start_time |-> req[w].loc.start_time_utc,
                            end_time |-> req[w].loc.end_time_utc,
                            status |-> req[w].loc.status,
                            time_created |-> now]
       IN IF GeofenceViolatesUnique(new_geofence)
            THEN /\ req' = [req EXCEPT ![w] = Respond(req[w], "InternalServerError")]
                 /\ UNCHANGED geofences
            ELSE /\ geofences' = Append(geofences, new_geofence)
                 /\ req' = [req EXCEPT ![w] = Respond(req[w], "Success")]
    /\ UNCHANGED <<now, attendance_records>>

(***************************************************************************)
(* get_geofences                                                           *)
(***************************************************************************)
\* What the listing shows of a row: the row without id, fence_code,
\* latitude, longitude and radius.
ListedFields(g) ==
    [name |-> g.name, creator_matric |-> g.creator_matric,
     start_time |-> g.start_time, end_time |-> g.end_time,
     status |-> g.status, time_created |-> g.time_created]

Reverse(seq) == [i \in 1..Len(seq) |-> seq[Len(seq) + 1 - i]]

\* course_title: a name, or "" for no filter.  The list that is returned is
\* kept in loc.geofences until the response has left.
GetGeofences(w, titles) ==
    /\ req[w].pc = "idle"
    /\ \E course_title \in titles :
         LET found == SelectSeq(geofences,
                          LAMBDA g : course_title = "" \/ g.name = course_title)
             r == [op |-> "get_geofences", pc |-> "done",
                   args |-> [course_title |-> course_title],
                   loc |-> [geofences |-> Reverse([i \in 1..Len(found) |->
                                                     ListedFields(found[i])])],
                   resp |-> IF found = <<>> THEN "NotFound" ELSE "Success"]
         IN req' = [req EXCEPT ![w] = r]
    /\ UNCHANGED <<now, geofences, attendance_records>>

(***************************************************************************)
(* manual_deactivate_geofence                                              *)
(***************************************************************************)
\* The fence of that name whose start date equals the datetime `date`.
FenceByNameAndDate(geofence_name, date) ==
    First({i \in DOMAIN geofences :
              /\ geofences[i].name = geofence_name
              /\ DateAsDatetime(DateOf(geofences[i].start_time)) = date})

\* The checks without the one for a fence that is inactive already.
DeactivateRejection_NoInactiveCheck(geofence, user_matric) ==
    IF geofence = 0 THEN "NotFound"
    ELSE IF user_matric # geofences[geofence].creator_matric THEN "PermissionDenied"
    ELSE ""

\* The checks before the update, in the order of the code; "" when the
\* request passes them.  geofence: the id returned by the query.
DeactivateRejection(geofence, user_matric) ==
    IF geofence = 0 THEN "NotFound"
    ELSE IF geofences[geofence].status = "inactive" THEN "AlreadyInactive"
    ELSE IF user_matric # geofences[geofence].creator_matric THEN "PermissionDenied"
    ELSE ""

\* An update that flips the stored status instead of setting it.
Deactivated_Toggle(row) ==
    [row EXCEPT !.status = IF row.status = "inactive" THEN "active" ELSE "inactive"]

\* The row as the update leaves it.
Deactivated(row) == [row EXCEPT !.status = "inactive"]

\* inputs: the (geofence_name, date, admin) triples that may be submitted.
MD_Query(w, inputs) ==
    /\ req[w].pc = "idle"
    /\ \E in \in inputs :
         LET geofence == FenceByNameAndDate(in[1], in[2])
             r == [op |-> "manual_deactivate_geofence", pc |-> "md_commit",
                   args |-> [geofence_name |-> in[1], date |-> in[2],
                             user_matric |-> in[3]],
                   loc |-> [geofence |-> geofence],
                   resp |-> ""]
             rejection == DeactivateRejection(geofence, in[3])
         IN req' = [req EXCEPT ![w] =
                       IF rejection # "" THEN Respond(r, rejection) ELSE r]
    /\ UNCHANGED <<now, geofences, attendance_records>>

\* An update that also deletes the attendance records of the fence.
MD_Commit_Cascade(w) ==
    /\ req[w].pc = "md_commit"
    /\ geofences' = [geofences EXCEPT
                       ![req[w].loc.geofence] = Deactivated(geofences[req[w].loc.geofence])]
    /\ attendance_records' =
          SelectSeq(attendance_records,
                    LAMBDA a : a.geofence_name # geofences[req[w].loc.geofence].name)
    /\ req' = [req EXCEPT ![w] = Respond(req[w], "Success")]
    /\ UNCHANGED now

MD_Commit(w) ==
    /\ req[w].pc = "md_commit"
    /\ geofences' = [geofences EXCEPT
                       ![req[w].loc.geofence] = Deactivated(geofences[req[w].loc.geofence])]
    /\ req' = [req EXCEPT ![w] = Respond(req[w], "Success")]
    /\ UNCHANGED <<now, attendance_records>>

(***************************************************************************)
(* record_attendance                                                       *)
(***************************************************************************)
\* The fence with that code whose stored status is "active", if any.
ActiveFenceByCode(fence_code) ==
    First({i \in DOMAIN geofences :
              /\ geofences[i].fence_code = fence_code
              /\ geofences[i].status = "active"})

\* A key made of the user alone: one record of a student would block that
\* student at every fence.
MatricFenceCode_UserOnly(user_matric, fence_code) == user_matric

\* A key that also holds the hour of the request: two requests of one student
\* for one fence in different hours get different keys.
MatricFenceCode_WithHour(user_matric, fence_code) ==
    user_matric \o fence_code \o <<ToString(now)>>

\* The admission key.
MatricFenceCode(user_matric, fence_code) == user_matric \o fence_code

\* A duplicate query that only sees the records of the current hour.
ExistingRecord_SameHour(matric_fence_code) ==
    First({i \in DOMAIN attendance_records :
              /\ attendance_records[i].matric_fence_code = matric_fence_code
              /\ attendance_records[i].timestamp = now})

\* The record with that admission key, if any.
ExistingRecord(matric_fence_code) ==
    First({i \in DOMAIN attendance_records :
              attendance_records[i].matric_fence_code = matric_fence_code})

\* check_user_in_circular_geofence (app/utils/algorithms.py is not part of
\* main.py): true iff the point is at most radius away from the centre.  The
\* model's coordinates are planar.
SquaredDistance(p, q) == (p[1] - q[1]) * (p[1] - q[1]) + (p[2] - q[2]) * (p[2] - q[2])
check_user_in_circular_geofence(lat, long, geofence) ==
    SquaredDistance(<<lat, long>>, <<geofence.latitude, geofence.longitude>>)
        <= geofence.radius * geofence.radius

\* The user and the fence are looked up; the status of the row found is
\* checked again (the stored statuses are lower-case words, which .lower()
\* leaves as they are).  inputs: the (student, fence_code, point) triples that may
\* be submitted.
RA_Lookup(w, inputs) ==
    /\ req[w].pc = "idle"
    /\ \E in \in inputs :
         LET geofence == IF in[1] \in Users THEN ActiveFenceByCode(in[2]) ELSE 0
             r == [op |-> "record_attendance", pc |-> "ra_check",
                   args |-> [user_matric |-> in[1], fence_code |-> in[2],
                             lat |-> in[3][1], long |-> in[3][2]],
                   loc |-> [geofence |-> geofence,
                            matric_fence_code |->
                                IF geofence = 0 THEN <<>>
                                ELSE MatricFenceCode(in[1], geofences[geofence].fence_code)],
                   resp |-> ""]
         IN req' = [req EXCEPT ![w] =
                       IF in[1] \notin Users THEN Respond(r, "UserNotFound")
                       ELSE IF geofence = 0 THEN Respond(r, "InvalidCode")
                       ELSE IF geofences[geofence].status # "active"
                           THEN Respond(r, "FenceNotOpen")
                       ELSE r]
    /\ UNCHANGED <<now, geofences, attendance_records>>

\* The two checks in the other order: containment first.
RA_Check_ContainmentFirst(w) ==
    /\ req[w].pc = "ra_check"
    /\ req' = [req EXCEPT ![w] =
                 IF ~check_user_in_circular_geofence(
                        req[w].args.lat, req[w].args.long,
                        geofences[req[w].loc.geofence])
                     THEN Respond(req[w], "OutsideGeofence")
                 ELSE IF ExistingRecord(req[w].loc.matric_fence_code) # 0
                     THEN Respond(req[w], "AlreadyRecorded")
                 ELSE [req[w] EXCEPT !.pc = "ra_commit"]]
    /\ UNCHANGED <<now, geofences, attendance_records>>

\* The duplicate check and the containment check.
RA_Check(w) ==
    /\ req[w].pc = "ra_check"
    /\ req' = [req EXCEPT ![w] =
                 IF ExistingRecord(req[w].loc.matric_fence_code) # 0
                     THEN Respond(req[w], "AlreadyRecorded")
                 ELSE IF ~check_user_in_circular_geofence(
                             req[w].args.lat, req[w].args.long,
                             geofences[req[w].loc.geofence])
                     THEN Respond(req[w], "OutsideGeofence")
                 ELSE [req[w] EXCEPT !.pc = "ra_commit"]]
    /\ UNCHANGED <<now, geofences, attendance_records>>

\* A commit that leaves the row in the table also when it fails.
RA_Commit_PartialWrite(w) ==
    /\ req[w].pc = "ra_commit"
    /\ LET new_attendance ==
               [user_matric |-> req[w].args.user_matric,
                fence_code |-> req[w].args.fence_code,
                geofence_name |-> geofences[req[w].loc.geofence].name,
                timestamp |-> now,
                matric_fence_code |-> req[w].loc.matric_fence_code]
       IN /\ attendance_records' = Append(attendance_records, new_attendance)
          /\ req' = [req EXCEPT ![w] =
                        Respond(req[w], IF AttendanceViolatesUnique(new_attendance)
                                            THEN "InternalServerError" ELSE "Success")]
    /\ UNCHANGED <<now, geofences>>

\* The record is added and committed.  Any exception becomes a 500.
RA_Commit(w) ==
    /\ req[w].pc = "ra_commit"
    /\ LET new_attendance ==
               [user_matric |-> req[w].args.user_matric,
                fence_code |-> req[w].args.fence_code,
                geofence_name |-> geofences[req[w].loc.geofence].name,
                timestamp |-> now,
                matric_fence_code |-> req[w].loc.matric_fence_code]
       IN IF AttendanceViolatesUnique(new_attendance)
            THEN /\ req' = [req EXCEPT ![w] = Respond(req[w], "InternalServerError")]
                 /\ UNCHANGED attendance_records
            ELSE /\ attendance_records' = Append(attendance_records, new_attendance)
                 /\ req' = [req EXCEPT ![w] = Respond(req[w], "Success")]
    /\ UNCHANGED <<now, geofences>>

(***************************************************************************)
(* The environment.                                                        *)
(***************************************************************************)
\* The response leaves the server; the worker is free again.
Return(w) ==
    /\ req[w].pc = "done"
    /\ req' = [req EXCEPT ![w] = Idle]
    /\ UNCHANGED <<now, geofences, attendance_records>>

\* An hour passes.
Tick ==
    /\ now < MaxClock
    /\ now' = now + 1
    /\ UNCHANGED <<geofences, attendance_records, req>>

(***************************************************************************)
(* Spec: all three mutating handlers, one class, one administrator who     *)
(* creates, two students.                                                  *)
(***************************************************************************)
CreateInputs == {"CSC101"} \X {WindowA, WindowB} \X {AdminA}
DeactivateInputs == {"CSC101"} \X {Midnight0} \X Admins
AttendanceInputs ==
    (Students \X RequestCodes \X Points) \cup {<<GhostStudent, <<"a">>, PointIn>>}

Next ==
    \/ \E w \in Workers : CG_Validate(w, CreateInputs)
    \/ \E w \in Workers : CG_Status(w)
    \/ \E w \in Workers : CG_Commit(w)
    \/ \E w \in Workers : MD_Query(w, DeactivateInputs)
    \/ \E w \in Workers : MD_Commit(w)
    \/ \E w \in Workers : RA_Lookup(w, AttendanceInputs)
    \/ \E w \in Workers : RA_Check(w)
    \/ \E w \in Workers : RA_Commit(w)
    \/ \E w \in Workers : Return(w)
    \/ Tick

Spec == Init /\ [][Next]_vars

(***************************************************************************)
(* SpecLifecycle: the fence lifecycle alone (creation and deactivation),   *)
(* with windows on two days, a window that is no window, and dates that    *)
(* are not midnight.                                                       *)
(***************************************************************************)
LifecycleCreateInputs == {"CSC101"} \X {WindowA, WindowB, WindowC, WindowBad} \X {AdminA}
LifecycleDeactivateInputs == {"CSC101"} \X {Midnight0, StartClock, Midnight1} \X Admins

NextLifecycle ==
    \/ \E w \in Workers : CG_Validate(w, LifecycleCreateInputs)
    \/ \E w \in Workers : CG_Status(w)
    \/ \E w \in Workers : CG_Commit(w)
    \/ \E w \in Workers : MD_Query(w, LifecycleDeactivateInputs)
    \/ \E w \in Workers : MD_Commit(w)
    \/ \E w \in Workers : Return(w)
    \/ Tick

SpecLifecycle == Init /\ [][NextLifecycle]_vars

(***************************************************************************)
(* SpecListing: the fence lifecycle together with the listing of fences.   *)
(***************************************************************************)
\* course_title of a listing: no filter, or a class without fences.
ListingTitles == {"", "MTH202"}

NextListing ==
    \/ \E w \in Workers : CG_Validate(w, LifecycleCreateInputs)
    \/ \E w \in Workers : CG_Status(w)
    \/ \E w \in Workers : CG_Commit(w)
    \/ \E w \in Workers : GetGeofences(w, ListingTitles)
    \/ \E w \in Workers : MD_Query(w, LifecycleDeactivateInputs)
    \/ \E w \in Workers : MD_Commit(w)
    \/ \E w \in Workers : Return(w)
    \/ Tick

SpecListing == Init /\ [][NextListing]_vars

(***************************************************************************)
(* SpecTwoFences: deactivation and admission on a store that holds two     *)
(* open fences of two classes and two administrators, both created at      *)
(* StartClock; one student.                                                *)
(***************************************************************************)
FenceCreatedAtStart(name, code, window, creator) ==
    [fence_code |-> code, name |-> name, creator_matric |-> creator,
     latitude |-> Geometry.latitude, longitude |-> Geometry.longitude,
     radius |-> Geometry.radius,
     start_time |-> ToUTC(window[1]), end_time |-> ToUTC(window[2]),
     status |-> InitialStatus(ToUTC(window[1]), ToUTC(window[2]), StartClock),
     time_created |-> StartClock]

InitTwoFences ==
    /\ now = StartClock
    /\ geofences = <<FenceCreatedAtStart("CSC101", <<"a">>, WindowA, AdminA),
                     FenceCreatedAtStart("MTH202", <<"b">>, WindowA, AdminB)>>
    /\ attendance_records = <<>>
    /\ req = [w \in Workers |-> Idle]

TwoFencesDeactivateInputs ==
    ({"CSC101", "MTH202"} \X {Midnight0} \X Admins) \cup {<<"CSC101", Midnight1, AdminA>>}
TwoFencesAttendanceInputs == {<<"u">>} \X {<<"a">>, <<"b">>} \X Points

NextTwoFences ==
    \/ \E w \in Workers : MD_Query(w, TwoFencesDeactivateInputs)
    \/ \E w \in Workers : MD_Commit(w)
    \/ \E w \in Workers : RA_Lookup(w, TwoFencesAttendanceInputs)
    \/ \E w \in Workers : RA_Check(w)
    \/ \E w \in Workers : RA_Commit(w)
    \/ \E w \in Workers : Return(w)
    \/ Tick

SpecTwoFences == InitTwoFences /\ [][NextTwoFences]_vars

(***************************************************************************)
(* SpecAdmission: admission alone on the store with the two open fences;   *)
(* two students, the identity of one a prefix of the other's, both at the  *)
(* centre.                                                                 *)
(***************************************************************************)
AdmissionInputs == Students \X {<<"a">>, <<"b">>} \X {PointIn}

NextAdmission ==
    \/ \E w \in Workers : RA_Lookup(w, AdmissionInputs)
    \/ \E w \in Workers : RA_Check(w)
    \/ \E w \in Workers : RA_Commit(w)
    \/ \E w \in Workers : Return(w)
    \/ Tick

SpecAdmission == InitTwoFences /\ [][NextAdmission]_vars

(***************************************************************************)
(* SpecEngine: all four handlers on an empty store; one class, one         *)
(* window, one administrator, two students.                                *)
(***************************************************************************)
EngineCreateInputs == {"CSC101"} \X {WindowA} \X {AdminA}
EngineDeactivateInputs == {"CSC101"} \X {Midnight0} \X {AdminA}
EngineAttendanceInputs == Students \X {Lower(c) : c \in GeneratedCodes} \X Points
EngineTitles == {""}

NextEngine ==
    \/ \E w \in Workers : CG_Validate(w, EngineCreateInputs)
    \/ \E w \in Workers : CG_Status(w)
    \/ \E w \in Workers : CG_Commit(w)
    \/ \E w \in Workers : GetGeofences(w, EngineTitles)
    \/ \E w \in Workers : MD_Query(w, EngineDeactivateInputs)
    \/ \E w \in Workers : MD_Commit(w)
    \/ \E w \in Workers : RA_Lookup(w, EngineAttendanceInputs)
    \/ \E w \in Workers : RA_Check(w)
    \/ \E w \in Workers : RA_Commit(w)
    \/ \E w \in Workers : Return(w)
    \/ Tick

SpecEngine == Init /\ [][NextEngine]_vars

(***************************************************************************)
(* Vocabulary of the properties.                                           *)
(***************************************************************************)
\* Worker w takes the first step of a request of handler op.
Starts(w, op) == req[w].pc = "idle" /\ req'[w].op = op

\* Worker w has answered a request of handler op.
Answered(w, op) == req[w].pc = "done" /\ req[w].op = op

\* The status the specification derives for a fence at instant t: the stored
\* "inactive" is the manual override.
DerivedStatus(g, t) ==
    IF g.status = "inactive" \/ t > g.end_time THEN "inactive"
    ELSE IF g.start_time <= t THEN "active"
    ELSE "scheduled"

\* The rows of the fence table with that code.
FencesWithCode(fence_code) ==
    {i \in DOMAIN geofences : geofences[i].fence_code = fence_code}

\* The fences that a deactivation request names: those of that name whose
\* start date is the day of which `date` is the midnight.
FencesNamedOn(geofence_name, date) ==
    {i \in DOMAIN geofences :
        /\ geofences[i].name = geofence_name
        /\ DateOf(geofences[i].start_time) * HoursPerDay = date}

\* The records of that user for that fence code.
RecordsOf(user_matric, fence_code) ==
    {k \in DOMAIN attendance_records :
        /\ attendance_records[k].user_matric = user_matric
        /\ attendance_records[k].fence_code = fence_code}

\* A step that adds an attendance record.
Admits == Len(attendance_records') = Len(attendance_records) + 1

(***************************************************************************)
(* Properties.                                                             *)
(***************************************************************************)
\* C1: in every reachable state there is at most one AttendanceRecord for
\* each (user, fence) pair, and no two records share an admission key.
C1_OneRecordPerUserAndFence ==
    \A i, j \in DOMAIN attendance_records :
        (\/ /\ attendance_records[i].user_matric = attendance_records[j].user_matric
            /\ attendance_records[i].fence_code = attendance_records[j].fence_code
         \/ attendance_records[i].matric_fence_code
                = attendance_records[j].matric_fence_code)
        => i = j

\* C1 witness: a student holds a record for a fence and a later request of
\* the same student for the same fence has been turned away.
C1_Witness ==
    \E w \in Workers, i \in DOMAIN attendance_records :
        /\ Answered(w, "record_attendance")
        /\ req[w].resp \in {"AlreadyRecorded", "InternalServerError"}
        /\ attendance_records[i].user_matric = req[w].args.user_matric
        /\ attendance_records[i].fence_code = req[w].args.fence_code

\* C2: of the concurrent record_attendance requests of one student for one
\* active fence, from inside the radius, one succeeds and every other one is
\* answered AlreadyRecorded; a uniqueness violation at commit is answered
\* AlreadyRecorded too, never as an internal error.
C2_LosersGetAlreadyRecorded ==
    [][\A w \in Workers :
          (/\ req[w].pc \in {"ra_check", "ra_commit"}
           /\ req'[w].pc = "done"
           /\ check_user_in_circular_geofence(req[w].args.lat, req[w].args.long,
                                              geofences[req[w].loc.geofence]))
          => req'[w].resp \in {"Success", "AlreadyRecorded"}]_vars

\* C3: a record is persisted at instant now only for a fence whose derived
\* status at that instant is active: not deactivated, and
\* start_time <= now <= end_time.
C3_AdmitsOnlyWhenDerivedActive ==
    [][Admits =>
        \A i \in FencesWithCode(attendance_records'[Len(attendance_records')].fence_code) :
            DerivedStatus(geofences[i], now) = "active"]_vars

\* C4: a fence created as scheduled is active from start_time on without
\* any write: a record_attendance request of a user without a record for the
\* fence, from inside the radius, that arrives while
\* start_time <= now <= end_time is on its way to admission and is not
\* turned away at the fence gate.
C4_ScheduledFenceOpensAtStart ==
    [][\A w \in Workers :
          (/\ Starts(w, "record_attendance")
           /\ req'[w].args.user_matric \in Users
           /\ \A k \in DOMAIN attendance_records :
                 \/ attendance_records[k].user_matric # req'[w].args.user_matric
                 \/ attendance_records[k].fence_code # req'[w].args.fence_code
           /\ \E i \in FencesWithCode(req'[w].args.fence_code) :
                 /\ geofences[i].status = "scheduled"
                 /\ geofences[i].start_time <= now
                 /\ now <= geofences[i].end_time
                 /\ check_user_in_circular_geofence(req'[w].args.lat,
                                                    req'[w].args.long, geofences[i]))
          => req'[w].pc = "ra_check"]_vars

\* C5: at every read of a fence its observed status is one of scheduled,
\* active, inactive and is the function of (window, now, manual override)
\* that the specification defines.
C5_ListedStatusIsDerived ==
    [][\A w \in Workers :
          Starts(w, "get_geofences") =>
              \A i \in DOMAIN geofences :
                  \A k \in DOMAIN req'[w].loc.geofences :
                      (/\ req'[w].loc.geofences[k].name = geofences[i].name
                       /\ req'[w].loc.geofences[k].start_time = geofences[i].start_time)
                      => /\ req'[w].loc.geofences[k].status
                                \in {"scheduled", "active", "inactive"}
                         /\ req'[w].loc.geofences[k].status
                                = DerivedStatus(geofences[i], now)]_vars

C7_NonCreatorIsDenied ==
    [][\A w \in Workers :
          (/\ Starts(w, "manual_deactivate_geofence")
           /\ \E i \in FencesNamedOn(req'[w].args.geofence_name, req'[w].args.date) :
                 geofences[i].creator_matric # req'[w].args.user_matric)
          => /\ req'[w].resp = "PermissionDenied"
             /\ geofences' = geofences
             /\ attendance_records' = attendance_records]_vars

C9_InitialStatusFromCreationInstant ==
    \A i \in DOMAIN geofences :
        /\ geofences[i].end_time >= geofences[i].time_created
        /\ geofences[i].status = "active"
           => /\ geofences[i].start_time <= geofences[i].time_created
              /\ geofences[i].time_created <= geofences[i].end_time
        /\ geofences[i].status = "scheduled"
           => geofences[i].time_created < geofences[i].start_time

\* No two rows of the table have the same name and the same UTC date of
\* start_time.
UniqueNameAndDate(table) ==
    \A i, j \in DOMAIN table :
        (/\ table[i].name = table[j].name
         /\ DateOf(table[i].start_time) = DateOf(table[j].start_time))
        => i = j

\* C10: no two stored fences have the same name and the same UTC date of
\* start_time, also when creations run concurrently; a creation request
\* that finds a fence of its name on its start date is answered
\* DuplicateFenceWindow and stores nothing.
C10_OneFencePerNameAndDate ==
    [][/\ UniqueNameAndDate(geofences')
       /\ \A w \in Workers :
            (/\ Starts(w, "create_geofence")
             /\ \E i \in DOMAIN geofences :
                   /\ geofences[i].name = req'[w].args.name
                   /\ DateOf(geofences[i].start_time)
                         = DateOf(ToUTC(req'[w].args.start_time)))
            => /\ req'[w].resp = "DuplicateFenceWindow"
               /\ geofences' = geofences]_vars

\* C10 witness: two fences of one name on different dates are stored; one
\* creation request was answered DuplicateFenceWindow, and another one, which
\* passed the check while its (name, date) was free, lost at commit.
C10_Witness ==
    /\ Len(geofences) = 2
    /\ Answered(1, "create_geofence") /\ req[1].resp = "DuplicateFenceWindow"
    /\ Answered(2, "create_geofence") /\ req[2].resp = "InternalServerError"
    /\ \E i \in DOMAIN geofences :
          /\ geofences[i].name = req[2].args.name
          /\ DateOf(geofences[i].start_time) = DateOf(ToUTC(req[2].args.start_time))

\* C11: record_attendance answers InvalidCode only when no fence has the
\* submitted code, and answers FenceNotOpen when a fence with that code
\* exists and its status is not active (scheduled or inactive).
C11_InvalidCodeVersusFenceNotOpen ==
    [][\A w \in Workers :
          (Starts(w, "record_attendance") /\ req'[w].args.user_matric \in Users)
          => /\ req'[w].resp = "InvalidCode"
                => FencesWithCode(req'[w].args.fence_code) = {}
             /\ (/\ FencesWithCode(req'[w].args.fence_code) # {}
                 /\ \A i \in FencesWithCode(req'[w].args.fence_code) :
                       geofences[i].status # "active")
                => req'[w].resp = "FenceNotOpen"]_vars

\* C12: a record_attendance request is turned away as a duplicate
\* (AlreadyRecorded, or the uniqueness violation at commit) only if a record
\* of the same user for the same fence exists; records of other users or for
\* other fences do not block it.
C12_OnlyOwnRecordBlocks ==
    [][\A w \in Workers :
          (/\ req[w].pc \in {"ra_check", "ra_commit"}
           /\ req'[w].pc = "done"
           /\ req'[w].resp \in {"AlreadyRecorded", "InternalServerError"})
          => \E k \in DOMAIN attendance_records :
                /\ attendance_records[k].user_matric = req[w].args.user_matric
                /\ attendance_records[k].fence_code
                      = geofences[req[w].loc.geofence].fence_code]_vars

\* C12 witness: a request has just been admitted although the table already
\* held a record of the same student for the other fence and a record of
\* another student, whose identity starts with this student's, for the same
\* fence.
C12_Witness ==
    \E w \in Workers :
        /\ Answered(w, "record_attendance")
        /\ req[w].resp = "Success"
        /\ Len(attendance_records) = 3
        /\ attendance_records[3].user_matric = req[w].args.user_matric
        /\ attendance_records[3].fence_code = req[w].args.fence_code
        /\ \E i, j \in 1..2 :
              /\ attendance_records[i].user_matric = req[w].args.user_matric
              /\ attendance_records[i].fence_code # req[w].args.fence_code
              /\ attendance_records[j].user_matric # req[w].args.user_matric
              /\ attendance_records[j].fence_code = req[w].args.fence_code
              /\ attendance_records[j].user_matric
                    = req[w].args.user_matric \o <<"a">>

\* C13: a record_attendance request that ends in an error (InvalidCode,
\* FenceNotOpen, AlreadyRecorded, OutsideGeofence, a failure at commit)
\* changes no attendance record and no fence: every step of the handler
\* other than the one that answers Success leaves both tables as they were.
C13_FailedAdmissionChangesNothing ==
    [][\A w \in Workers :
          (/\ req'[w] # req[w]
           /\ req'[w].op = "record_attendance"
           /\ ~(req'[w].pc = "done" /\ req'[w].resp = "Success"))
          => /\ attendance_records' = attendance_records
             /\ geofences' = geofences]_vars

\* C13 witness: one request has failed at commit and another has been turned
\* away for its coordinates, with a record in the table.
C13_Witness ==
    /\ attendance_records # <<>>
    /\ \E w, v \in Workers :
          /\ Answered(w, "record_attendance") /\ req[w].resp = "InternalServerError"
          /\ Answered(v, "record_attendance") /\ req[v].resp = "OutsideGeofence"

\* C14: once a student has a record for a fence, every repetition of the
\* request while the fence is still active passes the fence gate, is
\* answered AlreadyRecorded and leaves the attendance records unchanged.
C14_RepeatIsAlreadyRecorded ==
    [][\A w \in Workers :
          /\ (/\ Starts(w, "record_attendance")
              /\ RecordsOf(req'[w].args.user_matric, req'[w].args.fence_code) # {}
              /\ \E i \in FencesWithCode(req'[w].args.fence_code) :
                    DerivedStatus(geofences[i], now) = "active")
             => req'[w].pc = "ra_check"
          /\ (/\ req[w].pc = "ra_check"
              /\ req'[w].pc # "ra_check"
              /\ RecordsOf(req[w].args.user_matric, req[w].args.fence_code) # {})
             => /\ req'[w].resp = "AlreadyRecorded"
                /\ attendance_records' = attendance_records]_vars

\* C14 witness: in an hour after the one of the record, two repetitions of
\* the request have both been answered AlreadyRecorded and the table still
\* holds the one record.
C14_Witness ==
    /\ Len(attendance_records) = 1
    /\ attendance_records[1].timestamp < now
    /\ \A w \in Workers :
          /\ Answered(w, "record_attendance")
          /\ req[w].resp = "AlreadyRecorded"
          /\ req[w].args.user_matric = attendance_records[1].user_matric
          /\ req[w].args.fence_code = attendance_records[1].fence_code
          /\ <<req[w].args.lat, req[w].args.long>> = PointIn

\* No two rows of the table have the same fence_code.
UniqueFenceCodes(table) ==
    \A i, j \in DOMAIN table : table[i].fence_code = table[j].fence_code => i = j

\* C15: fence codes are unique across the stored fences, and a creation
\* request that has passed validation is not failed by a collision of its
\* generated code with the code of a stored fence: when its name and date
\* are still free at commit, it succeeds and stores its fence.
C15_CodeCollisionIsRetried ==
    [][/\ UniqueFenceCodes(geofences')
       /\ \A w \in Workers :
            (/\ req[w].pc = "cg_commit"
             /\ req'[w].pc = "done"
             /\ SameNameSameDate(req[w].args.name, req[w].loc.start_time_utc) = 0)
            => /\ req'[w].resp = "Success"
               /\ Len(geofences') = Len(geofences) + 1]_vars

\* C16: attendance records are append-only: no step changes or removes a
\* record that is stored, the step that answers a record_attendance request
\* with Success adds exactly one record, and no other step adds any.
C16_RecordsAreAppendOnly ==
    [][/\ Len(attendance_records') >= Len(attendance_records)
       /\ \A k \in DOMAIN attendance_records :
             attendance_records'[k] = attendance_records[k]
       /\ Len(attendance_records') =
             Len(attendance_records)
               + Cardinality({w \in Workers :
                                 /\ req[w].pc = "ra_commit"
                                 /\ req'[w].pc = "done"
                                 /\ req'[w].resp = "Success"})]_vars

\* C16 witness: a record is stored, its fence has been deactivated after
\* the admission and a listing has been served since.
C16_Witness ==
    /\ Len(attendance_records) = 1
    /\ \E i \in FencesWithCode(attendance_records[1].fence_code) :
          geofences[i].status = "inactive"
    /\ \E w, v \in Workers :
          /\ Answered(w, "manual_deactivate_geofence") /\ req[w].resp = "Success"
          /\ Answered(v, "get_geofences") /\ req[v].resp = "Success"
          /\ req[v].loc.geofences[1].status = "inactive"

\* C17: the fence lookup of record_attendance is case-insensitive: a request
\* whose fence_code is, lower-cased, the code of a fence stored as active
\* passes the fence gate as the lower-case request does, its admission key
\* is built from the stored code, and the record of an admission carries the
\* stored (lower-case) code.
C17_LookupIgnoresCase ==
    [][/\ \A w \in Workers :
            (/\ Starts(w, "record_attendance")
             /\ req'[w].args.user_matric \in Users
             /\ \E i \in FencesWithCode(Lower(req'[w].args.fence_code)) :
                   geofences[i].status = "active")
            => /\ req'[w].pc = "ra_check"
               /\ req'[w].loc.matric_fence_code
                     = req'[w].args.user_matric \o Lower(req'[w].args.fence_code)
       /\ Admits =>
            attendance_records'[Len(attendance_records')].fence_code
              = Lower(attendance_records'[Len(attendance_records')].fence_code)]_vars

C19_NoAdmissionAfterDeactivation ==
    [][Admits =>
        \A i \in FencesWithCode(attendance_records'[Len(attendance_records')].fence_code) :
            geofences[i].status # "inactive"]_vars
=============================================================================
